---- MODULE Spec2Model ----
(***************************************************************************)
(* Model of the Sports2D settings GUI (src/GUI2.py): the configuration     *)
(* document on disk, the CustomStyleWindow with its panel stack, and the   *)
(* SettingsPanel object (its config_data and its widgets).                 *)
(*                                                                         *)
(* Encoding of values.  Times are in tenths of a second, thresholds in    *)
(* thousandths, so that the floats of the program are integers here.  A    *)
(* slot of pose.time_range is Num(n), None, or (in a dumped file) the      *)
(* string StrV("None").  pose_advanced.input_size is AutoSize or           *)
(* Pair(w, h).  Texts of the line edits are strings.                       *)
(***************************************************************************)
EXTENDS Integers, Sequences, FiniteSets, TLC

VARIABLES
    file,               \* the configuration file at config_path
    settings_panel,     \* CustomStyleWindow.settings_panel: NoPanel or the object
    installation_panel, \* CustomStyleWindow.installation_panel: constructed or not
    right_stack,        \* the widgets added to CustomStyleWindow.right_stack
    current,            \* right_stack.currentWidget()
    msg,                \* the QMessageBox shown by the last handler ("none" if none)
    exc,                \* the exception that escaped the last handler ("none" if none)
    loaded,             \* history: the document load_config returned
    last,               \* history: the last operation
    nedits,             \* history: number of widget edits made
    gpu_checkbox,       \* InstallationPanel.gpu_checkbox.isChecked()
    ran,                \* history: the last installer handler and the commands it ran
    second_panel,       \* the settings panel of a second running instance
    nloads              \* history: number of documents load_config has returned

vars == <<file, settings_panel, installation_panel, right_stack, current,
          msg, exc, loaded, last, nedits, gpu_checkbox, ran, second_panel,
          nloads>>

-----------------------------------------------------------------------------
(* Bounds of the model *)

MaxEdits == 2
MaxLoads == 2
MaxCollapses == 2

-----------------------------------------------------------------------------
(* Values *)

None == [k |-> "none"]
Num(n) == [k |-> "float", v |-> n]
StrV(s) == [k |-> "str", s |-> s]
AutoSize == [k |-> "str", s |-> "auto"]
Pair(w, h) == [k |-> "list", w |-> w, h |-> h]

Range(s) == {s[i] : i \in 1..Len(s)}

Min(a, b) == IF a < b THEN a ELSE b
Max(a, b) == IF a > b THEN a ELSE b

\* The texts float() accepts, with their value in tenths.
FloatTable ==
    [t \in {"0", "0.0", "1.5", "5.0"} |->
        CASE t = "0" -> 0 [] t = "0.0" -> 0 [] t = "1.5" -> 15 [] t = "5.0" -> 50]

\* float(text) raises ValueError unless the text is a number.
Parsable(text) == text \in DOMAIN FloatTable
Float(text) == FloatTable[text]

\* str(x) of a float of the document.
Str(n) == CASE n = 0 -> "0.0" [] n = 15 -> "1.5" [] n = 50 -> "5.0"

\* bool(x) of a slot of the time range: None and 0.0 are falsy.
Truthy(slot) == slot.k = "float" /\ slot.v # 0

\* any(time_range)
PyAny(seq) == \E i \in 1..Len(seq) : Truthy(seq[i])

\* int(x * 100) of a threshold x, in IEEE doubles: 0.29 * 100, 0.57 * 100 and
\* 0.58 * 100 fall just below the integer.
IntTimes100(t) == IF t \in {290, 570, 580} THEN (t \div 10) - 1 ELSE t \div 10

\* A variant of DivideBy100 with the integer division of Python 2.
FloorDivideBy100(pos) == (pos \div 100) * 1000

\* position / 100, in thousandths
DivideBy100(pos) == pos * 10

-----------------------------------------------------------------------------
(* Controls *)

SpinBoxMin == 0
SpinBoxMax == 99
InputSizeMin == 1
InputSizeMax == 10000
DetFrequencyMin == 1
DetFrequencyMax == 240
ThresholdMin == 0
ThresholdMax == 100

\* A variant of SetValue for a control without a range.
SetValueWithoutRange(lo, hi, v) == v

\* QSpinBox.setValue / QSlider.setValue keep the value inside the range.
SetValue(lo, hi, v) == Max(lo, Min(hi, v))

ModeItems == <<"lightweight", "balanced", "performance">>
FilterItems == <<"butterworth", "gaussian", "LOESS", "median">>

\* QComboBox.setCurrentText on a non-editable box: the matching item becomes
\* current; without a match the current item (the first) stays.
SetCurrentText(items, text) == IF text \in Range(items) THEN text ELSE items[1]

JointAngleItems ==
    <<"Right ankle", "Left ankle", "Right knee", "Left knee", "Right hip",
      "Left hip", "Right shoulder", "Left shoulder", "Right elbow", "Left elbow",
      "Right wrist", "Left wrist">>

SegmentAngleItems ==
    <<"Right foot", "Left foot", "Right shank", "Left shank", "Right thigh",
      "Left thigh", "Trunk", "Right arm", "Left arm", "Right forearm",
      "Left forearm", "Right hand", "Left hand">>

\* The loop over the items of a list widget: each item whose text is in the
\* document's list is selected, in the order of the items.
SelectFromConfig(items, configured) ==
    SelectSeq(items, LAMBDA x : x \in Range(configured))

\* A click on an item of a MultiSelection list toggles it.
ClickItem(selection, label) ==
    IF label \in Range(selection)
    THEN SelectSeq(selection, LAMBDA x : x # label)
    ELSE Append(selection, label)

\* QListWidget.selectedItems()
SelectedItems(selection) == selection
-----------------------------------------------------------------------------
(* Documents *)

\* The demo configuration: the keys the panel edits, one key of an edited
\* section that the panel does not edit (pose_advanced.butterworth) and one
\* section it does not edit (project).
BaseDoc ==
    [ project |-> [ video_input |-> "demo.mp4" ],
      pose |-> [ display_detection |-> TRUE, time_range |-> <<>> ],
      compute_angles |->
        [ joint_angles |-> <<"Right ankle", "Left ankle">>,
          segment_angles |-> <<"Right foot">> ],
      pose_advanced |->
        [ overwrite_pose |-> FALSE, webcam_id |-> 0,
          input_size |-> Pair(1280, 720), mode |-> "balanced",
          det_frequency |-> 4, keypoints_threshold |-> 300,
          show_plots |-> TRUE, filter |-> TRUE, filter_type |-> "butterworth",
          butterworth |-> "order=4" ],
      compute_angles_advanced |->
        [ show_plots |-> TRUE, filter |-> TRUE, show_angles_on_img |-> TRUE,
          show_angles_on_vid |-> TRUE, flip_left_right |-> TRUE,
          filter_type |-> "butterworth" ] ]

\* A configuration edited by hand: values outside the ranges and the items of
\* the controls, labels in another order than the list widgets', a label the
\* list widgets do not have, other values of the keys the panel does not edit.
HandEditedDoc ==
    [ project |-> [ video_input |-> "webcam" ],
      pose |-> [ display_detection |-> FALSE, time_range |-> <<Num(15), Num(50)>> ],
      compute_angles |->
        [ joint_angles |-> <<"Left ankle", "Right ankle">>,
          segment_angles |-> <<"Right foot", "Pelvis">> ],
      pose_advanced |->
        [ overwrite_pose |-> TRUE, webcam_id |-> 150,
          input_size |-> Pair(20000, 0), mode |-> "fast",
          det_frequency |-> 300, keypoints_threshold |-> 290,
          show_plots |-> FALSE, filter |-> FALSE, filter_type |-> "kalman",
          butterworth |-> "order=2" ],
      compute_angles_advanced |->
        [ show_plots |-> FALSE, filter |-> FALSE, show_angles_on_img |-> FALSE,
          show_angles_on_vid |-> FALSE, flip_left_right |-> FALSE,
          filter_type |-> "kalman" ] ]

\* The documents the configuration file may hold.
LoadableDocs ==
    {BaseDoc, HandEditedDoc,
     [BaseDoc EXCEPT !.pose.time_range = <<Num(0), Num(0)>>],
     [BaseDoc EXCEPT !.pose.time_range = <<Num(0), Num(50)>>],
     [BaseDoc EXCEPT !.pose.time_range = <<Num(15), Num(50)>>],
     [BaseDoc EXCEPT !.pose_advanced.input_size = AutoSize]}

\* Configurations that parse but lack a path the panel reads: the key
\* pose.time_range, or the whole section compute_angles_advanced.
DocWithoutKey == [BaseDoc EXCEPT !.pose = [display_detection |-> TRUE]]
DocWithoutSection ==
    [sec \in DOMAIN BaseDoc \ {"compute_angles_advanced"} |-> BaseDoc[sec]]
IncompleteDocs == {DocWithoutKey, DocWithoutSection}

TomlFile(doc) == [kind |-> "toml", doc |-> doc]
MissingFile == [kind |-> "missing"]
CorruptFile == [kind |-> "corrupt"]
EmptyFile == [kind |-> "empty"]
PartialFile == [kind |-> "partial"]

\* toml.dump writes a None of a list as the string "None".
DumpSlot(slot) == IF slot = None THEN StrV("None") ELSE slot
Dump(doc) ==
    [doc EXCEPT !.pose.time_range =
        [i \in 1..Len(doc.pose.time_range) |-> DumpSlot(doc.pose.time_range[i])]]

-----------------------------------------------------------------------------
(* CollapsibleGroupBox *)

\* The three group boxes setup_ui puts into the settings panel.
GroupNames == {"basic_group", "advanced_pose_group", "advanced_angles_group"}

\* content_layout.sizeHint().height() of a group box with content.
SizeHintHeights == {200, 350}

\* __init__: the box starts collapsed, its content area has maximum height 0,
\* the animation is stopped and nothing is connected to its finished signal.
\* (The start and end values of the animation, which drives the box's own
\* maximumHeight, come from the geometry of the layout and are not kept.)
NewGroupBox ==
    [ is_collapsed |-> TRUE,
      content_height |-> 0,
      content_area_maximum_height |-> 0,
      animation_running |-> FALSE,
      finished_connections |-> 0,
      icon |-> "SP_ArrowRight" ]

\* expand, h being the size hint of the content layout.  animation.start()
\* starts a stopped animation and does nothing to a running one.
Expand(b, h) ==
    [b EXCEPT !.is_collapsed = FALSE,
              !.content_height = h,
              !.content_area_maximum_height = h,
              !.animation_running = TRUE,
              !.icon = "SP_ArrowDown"]

\* collapse: each call connects set_content_height to animation.finished
\* once more.
Collapse(b) ==
    [b EXCEPT !.is_collapsed = TRUE,
              !.animation_running = TRUE,
              !.icon = "SP_ArrowRight",
              !.finished_connections = @ + 1]

\* toggle_content
ToggleContentOf(b, h) == IF b.is_collapsed THEN Expand(b, h) ELSE Collapse(b)

\* A variant of set_content_height without the test of is_collapsed.
SetContentHeightAlways(b) == [b EXCEPT !.content_area_maximum_height = 0]

\* set_content_height
SetContentHeight(b) ==
    IF b.is_collapsed THEN [b EXCEPT !.content_area_maximum_height = 0] ELSE b

\* The finished signal calls the slot once per connection, n being the
\* number of calls left.
RECURSIVE EmitFinished(_, _)
EmitFinished(b, n) ==
    IF n = 0 THEN b ELSE EmitFinished(SetContentHeight(b), n - 1)

\* The animation reaches its end: it stops and emits finished.
FinishAnimation(b) ==
    EmitFinished([b EXCEPT !.animation_running = FALSE], b.finished_connections)

-----------------------------------------------------------------------------
(* SettingsPanel: construction *)

NoPanel == [constructed |-> FALSE]

\* No document has been loaded.
NoDocument == [absent |-> TRUE]

\* The attributes the constructor sets on the panel.
Attributes ==
    {"main_window", "config_path", "config_data", "tooltips",
     "display_detection_checkbox", "time_range_start", "time_range_end",
     "joint_angles_list", "segment_angles_list", "overwrite_pose", "webcam_id",
     "input_width", "input_height", "auto_checkbox", "mode", "det_frequency",
     "det_frequency_label", "keypoints_threshold", "keypoints_threshold_label",
     "pose_show_plots", "pose_filter", "filter_type",
     "angles_show_plots", "angles_filter", "angles_show_angles_on_img",
     "angles_show_angles_on_vid", "angles_flip_left_right", "filter_type_ang"}

\* The paths config_data[section][key] the constructor reads.
ConfigReads ==
    {<<"pose", "display_detection">>, <<"pose", "time_range">>,
     <<"compute_angles", "joint_angles">>, <<"compute_angles", "segment_angles">>,
     <<"pose_advanced", "overwrite_pose">>, <<"pose_advanced", "webcam_id">>,
     <<"pose_advanced", "input_size">>, <<"pose_advanced", "mode">>,
     <<"pose_advanced", "det_frequency">>,
     <<"pose_advanced", "keypoints_threshold">>,
     <<"pose_advanced", "show_plots">>, <<"pose_advanced", "filter">>,
     <<"pose_advanced", "filter_type">>,
     <<"compute_angles_advanced", "show_plots">>,
     <<"compute_angles_advanced", "filter">>,
     <<"compute_angles_advanced", "show_angles_on_img">>,
     <<"compute_angles_advanced", "show_angles_on_vid">>,
     <<"compute_angles_advanced", "flip_left_right">>,
     <<"compute_angles_advanced", "filter_type">>}

\* The document d lacks the section or the key of the path.
Absent(d, path) ==
    \/ path[1] \notin DOMAIN d
    \/ path[2] \notin DOMAIN d[path[1]]

\* load_config returns a document: the file exists and toml.load parses it
\* (an empty file parses to the empty document).
LoadReturns(f) == f.kind \in {"toml", "empty"}

\* find_config_file, load_config and setup_ui: the exception the constructor
\* raises, or "none".  Indexing a dict with an absent key raises KeyError.
LoadError(f) ==
    CASE f.kind = "missing" -> "FileNotFoundError"
      [] f.kind \in {"corrupt", "partial"} -> "TomlDecodeError"
      [] f.kind = "empty" -> "KeyError"
      [] f.kind = "toml" /\ (\E path \in ConfigReads : Absent(f.doc, path))
            -> "KeyError"
      [] OTHER -> "none"

\* The text of a time-range line edit for slot i of the document's range.
TimeRangeText(tr, i) ==
    IF Len(tr) > 0
    THEN IF tr[i].k = "str" THEN tr[i].s ELSE Str(tr[i].v)
    ELSE ""

\* setup_ui: the widgets as the constructor leaves them for the document d.
Project(d) ==
    [ constructed |-> TRUE,
      groups |-> [g \in GroupNames |-> NewGroupBox],
      config_data |-> d,
      display_detection_checkbox |-> d.pose.display_detection,
      time_range_start |-> TimeRangeText(d.pose.time_range, 1),
      time_range_end |-> TimeRangeText(d.pose.time_range, 2),
      joint_angles_list |->
        SelectFromConfig(JointAngleItems, d.compute_angles.joint_angles),
      segment_angles_list |->
        SelectFromConfig(SegmentAngleItems, d.compute_angles.segment_angles),
      overwrite_pose |-> d.pose_advanced.overwrite_pose,
      webcam_id |-> SetValue(SpinBoxMin, SpinBoxMax, d.pose_advanced.webcam_id),
      auto_checkbox |-> d.pose_advanced.input_size = AutoSize,
      input_width |->
        IF d.pose_advanced.input_size = AutoSize THEN InputSizeMin
        ELSE SetValue(InputSizeMin, InputSizeMax, d.pose_advanced.input_size.w),
      input_height |->
        IF d.pose_advanced.input_size = AutoSize THEN InputSizeMin
        ELSE SetValue(InputSizeMin, InputSizeMax, d.pose_advanced.input_size.h),
      input_width_enabled |-> d.pose_advanced.input_size # AutoSize,
      input_height_enabled |-> d.pose_advanced.input_size # AutoSize,
      mode |-> SetCurrentText(ModeItems, d.pose_advanced.mode),
      det_frequency |->
        SetValue(DetFrequencyMin, DetFrequencyMax, d.pose_advanced.det_frequency),
      keypoints_threshold |->
        SetValue(ThresholdMin, ThresholdMax,
                 IntTimes100(d.pose_advanced.keypoints_threshold)),
      pose_show_plots |-> d.pose_advanced.show_plots,
      pose_filter |-> d.pose_advanced.filter,
      filter_type |-> SetCurrentText(FilterItems, d.pose_advanced.filter_type),
      angles_show_plots |-> d.compute_angles_advanced.show_plots,
      angles_filter |-> d.compute_angles_advanced.filter,
      angles_show_angles_on_img |-> d.compute_angles_advanced.show_angles_on_img,
      angles_show_angles_on_vid |-> d.compute_angles_advanced.show_angles_on_vid,
      angles_flip_left_right |-> d.compute_angles_advanced.flip_left_right,
      filter_type_ang |->
        SetCurrentText(FilterItems, d.compute_angles_advanced.filter_type) ]

-----------------------------------------------------------------------------
(* SettingsPanel.apply_settings *)

\* One slot of the time range: float(text) if text else None.
TimeRangeSlot(text) == IF text # "" THEN Num(Float(text)) ELSE None

\* float() raises ValueError on a text that is not empty and not a number.
TimeRangeRaises(p) ==
    \/ p.time_range_start # "" /\ ~Parsable(p.time_range_start)
    \/ p.time_range_end # "" /\ ~Parsable(p.time_range_end)

\* time_range if any(time_range) else []
TimeRangeValue(start, end) ==
    LET time_range == <<TimeRangeSlot(start), TimeRangeSlot(end)>>
    IN  IF PyAny(time_range) THEN time_range ELSE <<>>

\* A variant of InputSizeValue that forgets the Auto box.
InputSizeValueIgnoringAuto(p) == Pair(p.input_width, p.input_height)

\* The value of pose_advanced.input_size.
InputSizeValue(p) ==
    IF p.auto_checkbox THEN AutoSize ELSE Pair(p.input_width, p.input_height)

\* The statement before the time range is read: pose.display_detection.
ApplyDisplayDetection(p) ==
    [p EXCEPT !.config_data.pose.display_detection = p.display_detection_checkbox]

\* pose.time_range
ApplyTimeRange(p) ==
    [p EXCEPT !.config_data.pose.time_range =
                  TimeRangeValue(p.time_range_start, p.time_range_end)]

\* compute_angles.joint_angles and compute_angles.segment_angles
ApplyAngleLists(p) ==
    [p EXCEPT
        !.config_data.compute_angles.joint_angles =
            SelectedItems(p.joint_angles_list),
        !.config_data.compute_angles.segment_angles =
            SelectedItems(p.segment_angles_list)]

\* pose_advanced.webcam_id and pose_advanced.input_size
ApplyWebcamAndInputSize(p) ==
    [p EXCEPT
        !.config_data.pose_advanced.webcam_id = p.webcam_id,
        !.config_data.pose_advanced.input_size = InputSizeValue(p)]

\* A variant of ApplyPoseAdvanced that stores the filter type under the key
\* of the filter's own table.
ApplyPoseAdvancedWrongKey(p) ==
    [p EXCEPT
        !.config_data.pose_advanced.overwrite_pose = p.overwrite_pose,
        !.config_data.pose_advanced.det_frequency = p.det_frequency,
        !.config_data.pose_advanced.mode = p.mode,
        !.config_data.pose_advanced.keypoints_threshold =
            DivideBy100(p.keypoints_threshold),
        !.config_data.pose_advanced.show_plots = p.pose_show_plots,
        !.config_data.pose_advanced.filter = p.pose_filter,
        !.config_data.pose_advanced.butterworth = p.filter_type]

\* pose_advanced.overwrite_pose to pose_advanced.filter_type
ApplyPoseAdvanced(p) ==
    [p EXCEPT
        !.config_data.pose_advanced.overwrite_pose = p.overwrite_pose,
        !.config_data.pose_advanced.det_frequency = p.det_frequency,
        !.config_data.pose_advanced.mode = p.mode,
        !.config_data.pose_advanced.keypoints_threshold =
            DivideBy100(p.keypoints_threshold),
        !.config_data.pose_advanced.show_plots = p.pose_show_plots,
        !.config_data.pose_advanced.filter = p.pose_filter,
        !.config_data.pose_advanced.filter_type = p.filter_type]

\* The statements from the time range to pose_advanced.filter_type.
ApplyBasicAndPose(p) ==
    ApplyPoseAdvanced(ApplyWebcamAndInputSize(ApplyAngleLists(ApplyTimeRange(p))))

\* The attributes the statements after pose_advanced.filter_type read, in the
\* order they are read.
AttributesReadLater ==
    <<"filter_settings", "show_angles_on_img", "show_angles_on_vid",
      "angles_filter", "angles_show_plots", "flip_left_right",
      "filter_type_ang", "filter_settings_ang">>

\* The checkbox an attribute of the angles statements names, when the panel
\* has it.
AnglesKey(attr) ==
    CASE attr = "show_angles_on_img" -> "show_angles_on_img"
      [] attr = "show_angles_on_vid" -> "show_angles_on_vid"
      [] attr = "angles_filter" -> "filter"
      [] attr = "angles_show_plots" -> "show_plots"
      [] attr = "flip_left_right" -> "flip_left_right"
      [] attr = "filter_type_ang" -> "filter_type"
      [] OTHER -> "none"

\* The statements after pose_advanced.filter_type, from the i-th attribute
\* read: an attribute the panel lacks raises AttributeError and ends the
\* handler; the result is the panel and whether the end was reached.
RECURSIVE ApplyAngles(_, _)
ApplyAngles(p, i) ==
    IF i > Len(AttributesReadLater) THEN [panel |-> p, raised |-> FALSE]
    ELSE IF AttributesReadLater[i] \notin Attributes
         THEN [panel |-> p, raised |-> TRUE]
         ELSE IF AnglesKey(AttributesReadLater[i]) = "none"
              THEN ApplyAngles(p, i + 1)
              ELSE ApplyAngles(
                     [p EXCEPT !.config_data.compute_angles_advanced[
                                   AnglesKey(AttributesReadLater[i])] =
                               p[AttributesReadLater[i]]], i + 1)

\* What the operating system does to a save: it completes, open() fails, or
\* the write fails after open() has truncated the file (nothing or a part of
\* the text is on disk).
IOOutcomes == {"ok", "open_fails", "write_fails_empty", "write_fails_partial"}

\* The try block that ends apply_settings: open(config_path, 'w'), toml.dump,
\* and the message box of either branch.
SaveConfig(doc, f, io) ==
    CASE io = "ok" -> [file |-> TomlFile(Dump(doc)), msg |-> "information"]
      [] io = "open_fails" -> [file |-> f, msg |-> "warning"]
      [] io = "write_fails_empty" -> [file |-> EmptyFile, msg |-> "warning"]
      [] io = "write_fails_partial" -> [file |-> PartialFile, msg |-> "warning"]

\* apply_settings as a whole, for the panel p, the file f and the outcome io
\* of the file operations: the panel, the file, the message box shown and the
\* exception that escapes.
ApplySettingsResult(p, f, io) ==
    IF TimeRangeRaises(p)
    THEN [panel |-> ApplyDisplayDetection(p), file |-> f,
          msg |-> "none", exc |-> "ValueError"]
    ELSE LET r == ApplyAngles(ApplyBasicAndPose(ApplyDisplayDetection(p)), 1)
         IN  IF r.raised
             THEN [panel |-> r.panel, file |-> f,
                   msg |-> "none", exc |-> "AttributeError"]
             ELSE LET s == SaveConfig(r.panel.config_data, f, io)
                  IN  [panel |-> r.panel, file |-> s.file,
                       msg |-> s.msg, exc |-> "none"]

-----------------------------------------------------------------------------
(* InstallationPanel and MinicondaInstaller: the package-manager commands *)

\* How a command started by subprocess.run ends: exit status 0, another exit
\* status, or the executable is not found (FileNotFoundError, whatever check
\* is).  Under shell=True the shell is what is started, and a command it does
\* not find is an exit status of the shell.
CommandOutcomes == {"ok", "nonzero", "not_found"}
ShellOutcomes == {"ok", "nonzero"}

\* The value of os.name.
OsNames == {"nt", "posix"}

\* No installer handler has run.
NoRun == [handler |-> "none", commands |-> <<>>]

\* subprocess.run(cmd, check=True) for the commands from the i-th on, o[i]
\* being how the i-th ends: the first command that does not exit with 0
\* raises and the rest is not run.
RECURSIVE RunChecked(_, _, _)
RunChecked(cmds, o, i) ==
    IF i > Len(cmds) THEN [commands |-> <<>>, exc |-> "none"]
    ELSE LET c == [cmd |-> cmds[i], status |-> o[i]]
         IN  IF o[i] = "ok"
             THEN LET r == RunChecked(cmds, o, i + 1)
                  IN  [commands |-> <<c>> \o r.commands, exc |-> r.exc]
             ELSE [commands |-> <<c>>,
                   exc |-> IF o[i] = "nonzero" THEN "CalledProcessError"
                                               ELSE "FileNotFoundError"]

\* The commands of install_package and of remove_package.
InstallCommands(gpu) ==
    <<"pip install Sports2D">> \o
    (IF gpu THEN <<"pip3 install torch", "pip install onnxruntime-gpu">> ELSE <<>>)
RemoveCommands(gpu) ==
    <<"pip uninstall Sports2D">> \o
    (IF gpu THEN <<"pip uninstall torch onnxruntime-gpu">> ELSE <<>>)

\* The try statement of install_package, remove_package and
\* setup_environment: the success box when nothing was raised, the error box
\* of the except clause (icon) for CalledProcessError; any other exception
\* escapes.
Report(handler, r, icon) ==
    [ran |-> [handler |-> handler, commands |-> r.commands],
     msg |-> CASE r.exc = "none" -> "information"
               [] r.exc = "CalledProcessError" -> icon
               [] OTHER -> "none",
     exc |-> IF r.exc = "CalledProcessError" THEN "none" ELSE r.exc]

\* setup_environment: conda create with check=True; on Windows one more
\* command with check=True, elsewhere two commands with shell=True and
\* without check, whose exit status is not looked at.
SetupEnvironment(os_name, o) ==
    IF os_name = "nt"
    THEN Report("setup_environment",
                RunChecked(<<"conda create", "cmd /c conda activate && pip install">>,
                           o, 1),
                "critical")
    ELSE LET create == RunChecked(<<"conda create">>, o, 1)
         IN  IF create.exc # "none"
             THEN Report("setup_environment", create, "critical")
             ELSE Report("setup_environment",
                         [commands |-> create.commands \o
                             << [cmd |-> "conda activate", status |-> o[2]],
                                [cmd |-> "pip install sports2d", status |-> o[3]] >>,
                          exc |-> "none"],
                         "critical")

\* check_and_setup_environment: is_conda_installed runs conda --version with
\* check=True and catches both exceptions; without conda the Miniconda box
\* is shown, with it setup_environment runs.
CheckAndSetup(os_name, conda, o) ==
    IF conda # "ok"
    THEN [ran |-> [handler |-> "prompt_miniconda_installation",
                   commands |-> << [cmd |-> "conda --version", status |-> conda] >>],
          msg |-> "warning", exc |-> "none"]
    ELSE SetupEnvironment(os_name, o)

-----------------------------------------------------------------------------
(* What the user may enter *)

\* The widgets and the values the user's edits are drawn from.
ToggledCheckBoxes ==
    {"display_detection_checkbox", "pose_filter", "angles_flip_left_right"}
UserTexts == {"", "0", "1.5", "abc"}
ClickedJointAngles == {"Right ankle", "Left ankle"}
ClickedSegmentAngles == {"Left foot"}
WebcamIds == {1}
InputWidths == {640}
InputHeights == {480}
DetFrequencies == {1}
ThresholdPositions == {37, 100}
ModeChoices == {"performance"}
FilterChoices == {"median"}

-----------------------------------------------------------------------------
(* Initial state: the window is constructed, the main panel is shown *)

Init ==
    /\ file \in {TomlFile(d) : d \in LoadableDocs \cup IncompleteDocs}
                   \cup {MissingFile, CorruptFile}
    /\ settings_panel = NoPanel
    /\ installation_panel = FALSE
    /\ right_stack = <<"main">>
    /\ current = "main"
    /\ msg = "none"
    /\ exc = "none"
    /\ loaded = NoDocument
    /\ last = "init"
    /\ nedits = 0
    /\ gpu_checkbox = FALSE
    /\ ran = NoRun
    /\ second_panel = NoPanel
    /\ nloads = 0

-----------------------------------------------------------------------------
(* CustomStyleWindow: navigation *)

\* show_installation_panel
ShowInstallationPanel ==
    /\ installation_panel' = TRUE
    /\ right_stack' = IF installation_panel THEN right_stack
                      ELSE Append(right_stack, "installation")
    /\ current' = "installation"
    /\ msg' = "none" /\ exc' = "none" /\ last' = "show_installation"
    /\ UNCHANGED <<file, settings_panel, loaded, nedits, gpu_checkbox, ran, second_panel,
                   nloads>>

\* A variant of show_settings_panel that adds the widget to the stack and
\* displays it before the constructor has read the configuration.
ShowSettingsPanelAddingFirst ==
    /\ last' = "show_settings"
    /\ msg' = "none"
    /\ UNCHANGED <<file, installation_panel, nedits, gpu_checkbox, ran, second_panel>>
    /\ settings_panel # NoPanel \/ nloads < MaxLoads
    /\ IF settings_panel # NoPanel
       THEN /\ current' = "settings"
            /\ exc' = "none"
            /\ UNCHANGED <<settings_panel, right_stack, loaded, nloads>>
       ELSE /\ right_stack' = Append(right_stack, "settings")
            /\ current' = "settings"
            /\ exc' = LoadError(file)
            /\ nloads' = IF LoadReturns(file) THEN nloads + 1 ELSE nloads
            /\ IF LoadError(file) # "none"
               THEN UNCHANGED <<settings_panel, loaded>>
               ELSE /\ settings_panel' = Project(file.doc)
                    /\ loaded' = file.doc

\* show_settings_panel: the panel is constructed on the first call only; an
\* exception of the constructor leaves the window as it was, and the next
\* call runs the constructor again (at most MaxLoads documents are loaded).
ShowSettingsPanel ==
    /\ last' = "show_settings"
    /\ msg' = "none"
    /\ UNCHANGED <<file, installation_panel, nedits, gpu_checkbox, ran, second_panel>>
    /\ settings_panel # NoPanel \/ nloads < MaxLoads
    /\ IF settings_panel # NoPanel
       THEN /\ current' = "settings"
            /\ exc' = "none"
            /\ UNCHANGED <<settings_panel, right_stack, loaded, nloads>>
       ELSE IF LoadError(file) # "none"
            THEN /\ exc' = LoadError(file)
                 /\ nloads' = IF LoadReturns(file) THEN nloads + 1 ELSE nloads
                 /\ UNCHANGED <<settings_panel, right_stack, current, loaded>>
            ELSE /\ settings_panel' = Project(file.doc)
                 /\ loaded' = file.doc
                 /\ nloads' = nloads + 1
                 /\ right_stack' = Append(right_stack, "settings")
                 /\ current' = "settings"
                 /\ exc' = "none"

\* show_main_panel (the Back button of either panel)
ShowMainPanel ==
    /\ current # "main"
    /\ current' = "main"
    /\ msg' = "none" /\ exc' = "none" /\ last' = "show_main"
    /\ UNCHANGED <<file, settings_panel, installation_panel, right_stack,
                   loaded, nedits, gpu_checkbox, ran, second_panel,
                   nloads>>

-----------------------------------------------------------------------------
(* SettingsPanel: the user edits a widget of the displayed panel *)

CanEdit ==
    /\ settings_panel # NoPanel
    /\ current = "settings"
    /\ nedits < MaxEdits

Edited(p) ==
    /\ settings_panel' = p
    /\ p # settings_panel
    /\ nedits' = nedits + 1
    /\ msg' = "none" /\ exc' = "none" /\ last' = "edit"
    /\ UNCHANGED <<file, installation_panel, right_stack, current, loaded,
                   gpu_checkbox, ran, second_panel,
                   nloads>>

ToggleCheckBox ==
    /\ CanEdit
    /\ \E name \in ToggledCheckBoxes :
          Edited([settings_panel EXCEPT ![name] = ~settings_panel[name]])

\* A variant of ToggleAutoMode in which stateChanged is connected to nothing:
\* the box is toggled and the spin boxes stay as they were.
ToggleAutoModeWithoutSlot ==
    /\ CanEdit
    /\ Edited([settings_panel EXCEPT !.auto_checkbox = ~settings_panel.auto_checkbox])

\* toggle_auto_mode, the slot of the Auto checkbox's stateChanged
ToggleAutoMode ==
    /\ CanEdit
    /\ LET checked == ~settings_panel.auto_checkbox
       IN  Edited([settings_panel EXCEPT !.auto_checkbox = checked,
                                         !.input_width_enabled = ~checked,
                                         !.input_height_enabled = ~checked])

EditTimeRange ==
    /\ CanEdit
    /\ \E text \in UserTexts :
          \/ Edited([settings_panel EXCEPT !.time_range_start = text])
          \/ Edited([settings_panel EXCEPT !.time_range_end = text])

ClickListItem ==
    /\ CanEdit
    /\ \/ \E label \in ClickedJointAngles :
             Edited([settings_panel EXCEPT !.joint_angles_list = ClickItem(@, label)])
       \/ \E label \in ClickedSegmentAngles :
             Edited([settings_panel EXCEPT !.segment_angles_list = ClickItem(@, label)])

\* The spin boxes of the input size take a value only while they are enabled.
SetSpinBox ==
    /\ CanEdit
    /\ \/ \E v \in WebcamIds :
             Edited([settings_panel EXCEPT
                        !.webcam_id = SetValue(SpinBoxMin, SpinBoxMax, v)])
       \/ \E v \in InputWidths :
             /\ settings_panel.input_width_enabled
             /\ Edited([settings_panel EXCEPT
                          !.input_width = SetValue(InputSizeMin, InputSizeMax, v)])
       \/ \E v \in InputHeights :
             /\ settings_panel.input_height_enabled
             /\ Edited([settings_panel EXCEPT
                          !.input_height = SetValue(InputSizeMin, InputSizeMax, v)])

MoveSlider ==
    /\ CanEdit
    /\ \/ \E v \in DetFrequencies :
             Edited([settings_panel EXCEPT
                        !.det_frequency = SetValue(DetFrequencyMin, DetFrequencyMax, v)])
       \/ \E v \in ThresholdPositions :
             Edited([settings_panel EXCEPT
                        !.keypoints_threshold = SetValue(ThresholdMin, ThresholdMax, v)])

SelectComboItem ==
    /\ CanEdit
    /\ \/ \E item \in ModeChoices \cap Range(ModeItems) :
             Edited([settings_panel EXCEPT !.mode = item])
       \/ \E item \in FilterChoices \cap Range(FilterItems) :
             Edited([settings_panel EXCEPT !.filter_type = item])
       \/ \E item \in FilterChoices \cap Range(FilterItems) :
             Edited([settings_panel EXCEPT !.filter_type_ang = item])

-----------------------------------------------------------------------------
(* SettingsPanel: the Apply button *)

ApplySettings ==
    /\ settings_panel # NoPanel
    /\ current = "settings"
    /\ \E io \in IOOutcomes :
          LET r == ApplySettingsResult(settings_panel, file, io)
          IN  /\ settings_panel' = r.panel
              /\ file' = r.file
              /\ msg' = r.msg
              /\ exc' = r.exc
    /\ last' = "apply"
    /\ UNCHANGED <<installation_panel, right_stack, current, loaded, nedits,
                   gpu_checkbox, ran, second_panel,
                   nloads>>

\* The try block of apply_settings run on its own, on the document the panel
\* holds: the statements that read filter_settings and the angles attributes
\* stand between the Apply button and this block.
SaveConfigAlone ==
    /\ settings_panel # NoPanel
    /\ current = "settings"
    /\ \E io \in IOOutcomes :
          LET s == SaveConfig(settings_panel.config_data, file, io)
          IN  /\ file' = s.file
              /\ msg' = s.msg
    /\ exc' = "none"
    /\ last' = "save"
    /\ UNCHANGED <<settings_panel, installation_panel, right_stack, current,
                   loaded, nedits, gpu_checkbox, ran, second_panel,
                   nloads>>

\* The keypoints-threshold slider dragged to any of its positions.
MoveThresholdSlider ==
    /\ CanEdit
    /\ \E v \in ThresholdMin..ThresholdMax :
          Edited([settings_panel EXCEPT
                     !.keypoints_threshold = SetValue(ThresholdMin, ThresholdMax, v)])

-----------------------------------------------------------------------------
(* SettingsPanel: the group boxes *)

\* The state of the group boxes becomes groups.
Grouped(groups, name) ==
    /\ settings_panel' = [settings_panel EXCEPT !.groups = groups]
    /\ msg' = "none" /\ exc' = "none" /\ last' = name
    /\ UNCHANGED <<file, installation_panel, right_stack, current, loaded,
                   nedits, gpu_checkbox, ran, second_panel, nloads>>

\* A click on the toggle button of a group box (at most MaxCollapses
\* collapses of each box).
ToggleContent ==
    /\ settings_panel # NoPanel
    /\ current = "settings"
    /\ \E g \in GroupNames, h \in SizeHintHeights :
          /\ settings_panel.groups[g].is_collapsed
                \/ settings_panel.groups[g].finished_connections < MaxCollapses
          /\ Grouped([settings_panel.groups EXCEPT ![g] = ToggleContentOf(@, h)],
                     "toggle_content")

\* The running animation of a group box reaches its end.
AnimationFinished ==
    /\ settings_panel # NoPanel
    /\ \E g \in GroupNames :
          /\ settings_panel.groups[g].animation_running
          /\ Grouped([settings_panel.groups EXCEPT ![g] = FinishAnimation(@)],
                     "animation_finished")

-----------------------------------------------------------------------------
(* A second running instance of the program on the same configuration file *)

\* The second instance constructs its settings panel from the file.
OpenSecondSession ==
    /\ second_panel = NoPanel
    /\ LoadError(file) = "none"
    /\ second_panel' = Project(file.doc)
    /\ msg' = "none" /\ exc' = "none" /\ last' = "show_settings2"
    /\ UNCHANGED <<file, settings_panel, installation_panel, right_stack,
                   current, loaded, nedits, gpu_checkbox, ran,
                   nloads>>

\* The user edits a widget of the second instance's panel.
EditSecondSession ==
    /\ second_panel # NoPanel
    /\ nedits < MaxEdits
    /\ \/ \E name \in ToggledCheckBoxes :
             second_panel' = [second_panel EXCEPT ![name] = ~second_panel[name]]
       \/ \E text \in UserTexts :
             /\ second_panel.time_range_start # text
             /\ second_panel' = [second_panel EXCEPT !.time_range_start = text]
    /\ nedits' = nedits + 1
    /\ msg' = "none" /\ exc' = "none" /\ last' = "edit2"
    /\ UNCHANGED <<file, settings_panel, installation_panel, right_stack,
                   current, loaded, gpu_checkbox, ran,
                   nloads>>

\* The Apply button of the second instance.
ApplySecondSession ==
    /\ second_panel # NoPanel
    /\ \E io \in IOOutcomes :
          LET r == ApplySettingsResult(second_panel, file, io)
          IN  /\ second_panel' = r.panel
              /\ file' = r.file
              /\ msg' = r.msg
              /\ exc' = r.exc
    /\ last' = "apply2"
    /\ UNCHANGED <<settings_panel, installation_panel, right_stack, current,
                   loaded, nedits, gpu_checkbox, ran,
                   nloads>>

-----------------------------------------------------------------------------
(* InstallationPanel: the GPU box and the two buttons; MinicondaInstaller *)

OnInstallationPanel == installation_panel /\ current = "installation"

\* The result r of an installer handler becomes the state.
Ran(r, name) ==
    /\ ran' = r.ran
    /\ msg' = r.msg
    /\ exc' = r.exc
    /\ last' = name
    /\ UNCHANGED <<file, settings_panel, installation_panel, right_stack,
                   current, loaded, nedits, gpu_checkbox, second_panel,
                   nloads>>

ToggleGpuCheckBox ==
    /\ OnInstallationPanel
    /\ gpu_checkbox' = ~gpu_checkbox
    /\ msg' = "none" /\ exc' = "none" /\ last' = "toggle_gpu"
    /\ UNCHANGED <<file, settings_panel, installation_panel, right_stack,
                   current, loaded, nedits, ran, second_panel,
                   nloads>>

\* install_package
InstallPackage ==
    /\ OnInstallationPanel
    /\ \E o \in [1..3 -> CommandOutcomes] :
          Ran(Report("install_package",
                     RunChecked(InstallCommands(gpu_checkbox), o, 1), "warning"),
              "install_package")

\* remove_package
RemovePackage ==
    /\ OnInstallationPanel
    /\ \E o \in [1..2 -> CommandOutcomes] :
          Ran(Report("remove_package",
                     RunChecked(RemoveCommands(gpu_checkbox), o, 1), "warning"),
              "remove_package")

\* The button of the MinicondaInstaller window (src/GUI.py, a program of its
\* own): check_and_setup_environment.
CheckAndSetupEnvironment ==
    \E os_name \in OsNames, conda \in CommandOutcomes,
       o \in [1..3 -> CommandOutcomes] :
          /\ os_name = "posix" => o[2] \in ShellOutcomes /\ o[3] \in ShellOutcomes
          /\ Ran(CheckAndSetup(os_name, conda, o), "check_and_setup_environment")

-----------------------------------------------------------------------------
(* Specifications *)

Next ==
    \/ ShowSettingsPanel
    \/ ShowMainPanel
    \/ ToggleCheckBox
    \/ ToggleAutoMode
    \/ EditTimeRange
    \/ ClickListItem
    \/ SetSpinBox
    \/ MoveSlider
    \/ SelectComboItem
    \/ ApplySettings

\* The settings session: the Settings and Back buttons, the edits and Apply.
Spec == Init /\ [][Next]_vars

NextWindow == Next \/ ShowInstallationPanel

\* The whole window: the settings session and the Installation button.
SpecWindow == Init /\ [][NextWindow]_vars

NextSave == Next \/ SaveConfigAlone

\* The settings session, with the try block of apply_settings also run on its own.
SpecSave == Init /\ [][NextSave]_vars

NextThreshold ==
    \/ ShowSettingsPanel
    \/ ShowMainPanel
    \/ MoveThresholdSlider
    \/ ApplySettings

\* The window started on the demo or on the hand-edited configuration.
InitThreshold == Init /\ file \in {TomlFile(BaseDoc), TomlFile(HandEditedDoc)}

\* The settings session in which the only edits are moves of the
\* keypoints-threshold slider, to every position of its range.
SpecThreshold == InitThreshold /\ [][NextThreshold]_vars

\* The window started on the demo configuration.
InitInstaller == Init /\ file = TomlFile(BaseDoc)

NextInstaller ==
    \/ ShowInstallationPanel
    \/ ShowMainPanel
    \/ ToggleGpuCheckBox
    \/ InstallPackage
    \/ RemovePackage
    \/ CheckAndSetupEnvironment

\* The installation panel and the MinicondaInstaller window.
SpecInstaller == InitInstaller /\ [][NextInstaller]_vars

\* The two instances started on the demo or on the hand-edited configuration.
InitSessions == Init /\ file \in {TomlFile(BaseDoc), TomlFile(HandEditedDoc)}

NextSessions ==
    \/ ShowSettingsPanel
    \/ ToggleCheckBox
    \/ EditTimeRange
    \/ ApplySettings
    \/ OpenSecondSession
    \/ EditSecondSession
    \/ ApplySecondSession

\* Two instances of the program editing the same configuration file.
SpecSessions == InitSessions /\ [][NextSessions]_vars

\* The window started on the demo configuration.
InitGroups == Init /\ file = TomlFile(BaseDoc)

NextGroups ==
    \/ ShowSettingsPanel
    \/ ShowMainPanel
    \/ ToggleContent
    \/ AnimationFinished

\* The settings panel's group boxes: clicks on their toggle buttons and the
\* ends of their animations, in any interleaving.
SpecGroups == InitGroups /\ [][NextGroups]_vars

-----------------------------------------------------------------------------
(* Vocabulary of the claims *)

\* The last step was the Apply button.
Applied == last = "apply" /\ settings_panel # NoPanel

\* Every field of the panel p holds a value its coercion accepts: the only
\* coercion that can fail is that of the time-range texts.
AllFieldsValid(p) ==
    /\ p.time_range_start = "" \/ Parsable(p.time_range_start)
    /\ p.time_range_end = "" \/ Parsable(p.time_range_end)

\* The fields the panel edits, as <<section, key>>.
EditableFields ==
    {<<"pose", "display_detection">>, <<"pose", "time_range">>,
     <<"compute_angles", "joint_angles">>, <<"compute_angles", "segment_angles">>,
     <<"pose_advanced", "overwrite_pose">>, <<"pose_advanced", "webcam_id">>,
     <<"pose_advanced", "input_size">>, <<"pose_advanced", "mode">>,
     <<"pose_advanced", "det_frequency">>,
     <<"pose_advanced", "keypoints_threshold">>,
     <<"pose_advanced", "show_plots">>, <<"pose_advanced", "filter">>,
     <<"pose_advanced", "filter_type">>,
     <<"compute_angles_advanced", "show_plots">>,
     <<"compute_angles_advanced", "filter">>,
     <<"compute_angles_advanced", "show_angles_on_img">>,
     <<"compute_angles_advanced", "show_angles_on_vid">>,
     <<"compute_angles_advanced", "flip_left_right">>,
     <<"compute_angles_advanced", "filter_type">>}

\* The time range the coercion table asks for: the empty list when both texts
\* are empty, else the pair with each empty slot null.
NullablePair(start, end) ==
    IF start = "" /\ end = "" THEN <<>>
    ELSE << IF start = "" THEN None ELSE Num(Float(start)),
            IF end = "" THEN None ELSE Num(Float(end)) >>

\* The document d with every field of the schema overwritten by the coerced
\* value of its widget in the panel p.
MergedDocument(d, p) ==
    [d EXCEPT
        !.pose.display_detection = p.display_detection_checkbox,
        !.pose.time_range = NullablePair(p.time_range_start, p.time_range_end),
        !.compute_angles.joint_angles = p.joint_angles_list,
        !.compute_angles.segment_angles = p.segment_angles_list,
        !.pose_advanced.overwrite_pose = p.overwrite_pose,
        !.pose_advanced.webcam_id = p.webcam_id,
        !.pose_advanced.input_size =
            IF p.auto_checkbox THEN AutoSize
            ELSE Pair(p.input_width, p.input_height),
        !.pose_advanced.mode = p.mode,
        !.pose_advanced.det_frequency = p.det_frequency,
        !.pose_advanced.keypoints_threshold = 10 * p.keypoints_threshold,
        !.pose_advanced.show_plots = p.pose_show_plots,
        !.pose_advanced.filter = p.pose_filter,
        !.pose_advanced.filter_type = p.filter_type,
        !.compute_angles_advanced.show_plots = p.angles_show_plots,
        !.compute_angles_advanced.filter = p.angles_filter,
        !.compute_angles_advanced.show_angles_on_img = p.angles_show_angles_on_img,
        !.compute_angles_advanced.show_angles_on_vid = p.angles_show_angles_on_vid,
        !.compute_angles_advanced.flip_left_right = p.angles_flip_left_right,
        !.compute_angles_advanced.filter_type = p.filter_type_ang]

-----------------------------------------------------------------------------
(* Claims *)

\* C1. Commit atomicity: an apply in which the coercion of a field fails (a
\* time-range text that is no number) changes neither the in-memory document
\* nor the file.
C1_CommitAtomicity ==
    [][ (last' = "apply" /\ ~AllFieldsValid(settings_panel))
          => /\ settings_panel'.config_data = settings_panel.config_data
             /\ file' = file ]_vars

\* C2. An apply while every field is valid reaches Committed: the edited
\* values are merged into the document and the document is saved, so that the
\* file holds the loaded document with every field of the schema overwritten
\* by its coerced value (or, when the file cannot be written, the failure of
\* the save is what is reported).
C2_ValidApplyCommits ==
    (Applied /\ AllFieldsValid(settings_panel))
        => /\ msg \in {"information", "warning"}
           /\ msg = "information"
                => file = TomlFile(Dump(MergedDocument(loaded, settings_panel)))

\* C3. Unknown-key preservation: every section and key of the loaded document
\* that is not an editable field has, in the in-memory document and in the
\* file, the value it had when the document was loaded.
C3_UnknownKeysPreserved ==
    settings_panel # NoPanel =>
        /\ file.kind = "toml"
        /\ \A sec \in DOMAIN loaded : \A key \in DOMAIN loaded[sec] :
              <<sec, key>> \notin EditableFields =>
                /\ sec \in DOMAIN settings_panel.config_data
                /\ key \in DOMAIN settings_panel.config_data[sec]
                /\ settings_panel.config_data[sec][key] = loaded[sec][key]
                /\ sec \in DOMAIN file.doc
                /\ key \in DOMAIN file.doc[sec]
                /\ file.doc[sec][key] = loaded[sec][key]

\* C3 witness: Apply has changed the in-memory document of a configuration
\* that has keys outside the schema.
C3_Witness ==
    /\ Applied
    /\ settings_panel.config_data # loaded
    /\ loaded.project.video_input = "webcam"
    /\ settings_panel.config_data.pose_advanced.butterworth = "order=2"

\* C4. Round trip under a no-op edit: the document an apply produces when no
\* field was changed since the document was loaded into the fields equals the
\* loaded document.
C4_NoOpRoundTrip ==
    (Applied /\ nedits = 0) => settings_panel.config_data = loaded

\* C5. Back discards the edit batch: when Back was pressed on a panel whose
\* document no apply has changed and the settings panel is opened again, the
\* file is as loaded and every field shows the value projected from the
\* document, not an edit abandoned before Back.
C5_BackDiscardsEdits ==
    [][ (last = "show_main" /\ last' = "show_settings"
            /\ settings_panel # NoPanel
            /\ settings_panel.config_data = loaded)
          => /\ file' = TomlFile(loaded)
             /\ settings_panel' = Project(loaded) ]_vars

C8_TimeRangeCoercion ==
    (Applied /\ AllFieldsValid(settings_panel)) =>
        settings_panel.config_data.pose.time_range =
            NullablePair(settings_panel.time_range_start,
                         settings_panel.time_range_end)

\* C9. A time-range text that is not empty and no number makes apply end
\* Rejected with InvalidNumber reported to the user: a message is shown, no
\* exception is left unreported, and no save is attempted.
C9_InvalidNumberReported ==
    (Applied /\ ~AllFieldsValid(settings_panel))
        => msg = "warning" /\ exc = "none"

\* C10. Auto-dimension coercion: after an apply that the time-range texts do
\* not abort, the stored pose_advanced.input_size is "auto" if the Auto box
\* is checked, whatever the width and height controls hold, and otherwise
\* the pair of the two controls' values.
C10_AutoDimension ==
    (Applied /\ exc # "ValueError") =>
        /\ settings_panel.auto_checkbox
              => settings_panel.config_data.pose_advanced.input_size.k = "str"
                 /\ settings_panel.config_data.pose_advanced.input_size.s = "auto"
        /\ ~settings_panel.auto_checkbox
              => settings_panel.config_data.pose_advanced.input_size.k = "list"
                 /\ settings_panel.config_data.pose_advanced.input_size.w
                      = settings_panel.input_width
                 /\ settings_panel.config_data.pose_advanced.input_size.h
                      = settings_panel.input_height

\* C10 witness: Apply with the Auto box checked while the width and height
\* controls hold a size, and Apply with the box unchecked, have both stored
\* their value.
C10_Witness ==
    /\ Applied /\ exc # "ValueError"
    /\ settings_panel.auto_checkbox
    /\ settings_panel.input_width = 1280
    /\ settings_panel.input_height = 720
    /\ settings_panel.config_data.pose_advanced.input_size = AutoSize
    /\ loaded.pose_advanced.input_size = Pair(1280, 720)

C12_EnumRejection ==
    (Applied /\ exc # "ValueError" /\ nedits = 0) =>
        /\ loaded.pose_advanced.mode \notin Range(ModeItems)
              => /\ settings_panel.config_data.pose_advanced.mode
                      = loaded.pose_advanced.mode
                 /\ msg = "warning"
        /\ loaded.pose_advanced.filter_type \notin Range(FilterItems)
              => /\ settings_panel.config_data.pose_advanced.filter_type
                      = loaded.pose_advanced.filter_type
                 /\ msg = "warning"

\* The labels of a selection arranged in the order of the list widget's items.
InCatalogOrder(items, labels) == SelectSeq(items, LAMBDA x : x \in Range(labels))

\* C13. Multi-select coercion: the joint-angle and segment-angle lists stored
\* by an apply hold exactly the selected labels, in the order of the list
\* widget's items and not in the order of selection.
C13_CatalogOrder ==
    (Applied /\ exc # "ValueError") =>
        /\ settings_panel.config_data.compute_angles.joint_angles
              = InCatalogOrder(JointAngleItems, settings_panel.joint_angles_list)
        /\ settings_panel.config_data.compute_angles.segment_angles
              = InCatalogOrder(SegmentAngleItems, settings_panel.segment_angles_list)

\* C14. Bounded-float coercion: for every position p in 0..100 of the
\* keypoints-threshold slider, an apply that the time-range texts do not abort
\* stores p/100 (p * 10 thousandths) as pose_advanced.keypoints_threshold; the
\* coercion raises nothing, so the handler goes on to the statements after it.
C14_ThresholdCoercion ==
    (Applied /\ exc # "ValueError") =>
        /\ settings_panel.keypoints_threshold \in 0..100
        /\ settings_panel.config_data.pose_advanced.keypoints_threshold
              = 10 * settings_panel.keypoints_threshold
        /\ settings_panel.config_data.pose_advanced.filter_type
              = settings_panel.filter_type

\* C14 witness: the slider was dragged to 37 and Apply has stored 0.37.
C14_Witness ==
    /\ Applied /\ exc # "ValueError" /\ nedits > 0
    /\ settings_panel.keypoints_threshold = 37
    /\ settings_panel.config_data.pose_advanced.keypoints_threshold = 370
    /\ loaded.pose_advanced.keypoints_threshold # 370

\* C15. Projection is total over missing paths: pressing Settings on a
\* configuration that parses, also one in which the section or the key of an
\* editable field is absent, does not fail: no exception escapes and the
\* panel is constructed and displayed.
C15_ProjectionTotal ==
    (last = "show_settings" /\ file.kind = "toml") =>
        /\ exc = "none"
        /\ settings_panel # NoPanel
        /\ current = "settings"

\* C16. A storage error while the settings session is opened (the
\* configuration file is not found, or its content does not parse) escapes to
\* the caller of show_settings_panel and creates no partial state: the
\* window's settings panel stays unset, nothing is added to the panel stack,
\* the displayed panel is the one displayed before, no document is held and
\* the file is untouched, so that the next press of Settings starts from
\* scratch.
C16_LoadErrorNoPartialState ==
    [][ (last' = "show_settings" /\ settings_panel = NoPanel
            /\ file.kind \in {"missing", "corrupt"})
          => /\ exc' = IF file.kind = "missing" THEN "FileNotFoundError"
                                                ELSE "TomlDecodeError"
             /\ msg' = "none"
             /\ settings_panel' = NoPanel
             /\ right_stack' = right_stack
             /\ current' = current
             /\ loaded' = NoDocument
             /\ file' = file ]_vars

\* C16 witness: Settings was pressed on the installation panel while the
\* configuration file does not parse; the installation panel is still the
\* one displayed.
C16_Witness ==
    /\ last = "show_settings"
    /\ exc = "TomlDecodeError"
    /\ file = CorruptFile
    /\ settings_panel = NoPanel
    /\ current = "installation"
    /\ right_stack = <<"main", "installation">>

\* C17. Every apply ends Committed or Rejected with exactly one outcome
\* reported to the user: when the handler has ended, one message box has been
\* shown (success, or a failure) and no exception has escaped unreported.
C17_OneOutcomeReported ==
    Applied => /\ msg \in {"information", "warning"}
               /\ exc = "none"

\* C18. Bounded-integer fields are never clamped: while no widget has been
\* edited, the webcam-id and detection-frequency controls hold the loaded
\* document's values; after an apply that the time-range texts do not abort,
\* the document holds the controls' values, and these lie inside the
\* controls' ranges.
C18_NeverClamped ==
    /\ (settings_panel # NoPanel /\ nedits = 0)
          => /\ settings_panel.webcam_id = loaded.pose_advanced.webcam_id
             /\ settings_panel.det_frequency = loaded.pose_advanced.det_frequency
    /\ (Applied /\ exc # "ValueError")
          => /\ settings_panel.config_data.pose_advanced.webcam_id
                  = settings_panel.webcam_id
             /\ settings_panel.config_data.pose_advanced.det_frequency
                  = settings_panel.det_frequency
             /\ settings_panel.webcam_id \in SpinBoxMin..SpinBoxMax
             /\ settings_panel.det_frequency \in DetFrequencyMin..DetFrequencyMax

\* The GPU commands of install_package and remove_package.
GpuCommands ==
    {"pip3 install torch", "pip install onnxruntime-gpu",
     "pip uninstall torch onnxruntime-gpu"}

\* C19. Installer outcome reporting: when install_package, remove_package or
\* setup_environment has run, the success message is shown only if every
\* command that was run exited successfully, a command that failed has
\* produced the error message, and in install_package and remove_package a
\* GPU command was run only with the GPU box checked and after the base
\* command succeeded.
C19_InstallerOutcome ==
    ran.handler \in {"install_package", "remove_package", "setup_environment"} =>
        /\ msg = "information"
              => \A i \in 1..Len(ran.commands) : ran.commands[i].status = "ok"
        /\ (\E i \in 1..Len(ran.commands) : ran.commands[i].status # "ok")
              => msg \in {"warning", "critical"}
        /\ \A i \in 1..Len(ran.commands) :
              ran.commands[i].cmd \in GpuCommands
                => /\ gpu_checkbox
                   /\ i > 1
                   /\ ran.commands[1].status = "ok"

\* C20. Last-save-wins: when two sessions have loaded the same file and one
\* applies right after the other, every field of both being valid, the later
\* apply is not rejected (the success message is shown) and the file holds
\* the later session's document in full; this in either order of the two.
C20_LastSaveWins ==
    [][ /\ (last = "apply" /\ last' = "apply2"
              /\ settings_panel # NoPanel /\ AllFieldsValid(settings_panel)
              /\ AllFieldsValid(second_panel))
            => /\ msg' = "information"
               /\ file' = TomlFile(Dump(second_panel'.config_data))
        /\ (last = "apply2" /\ last' = "apply"
              /\ second_panel # NoPanel /\ AllFieldsValid(second_panel)
              /\ AllFieldsValid(settings_panel))
            => /\ msg' = "information"
               /\ file' = TomlFile(Dump(settings_panel'.config_data)) ]_vars

\* C21. In every state of a constructed settings panel, after construction
\* from a document whose input_size is "auto" or a pair and after any toggles
\* of the Auto checkbox, the width and the height input are enabled exactly
\* when the Auto checkbox is unchecked.
C21_EnabledIffNotAuto ==
    settings_panel # NoPanel =>
        /\ settings_panel.input_width_enabled = ~settings_panel.auto_checkbox
        /\ settings_panel.input_height_enabled = ~settings_panel.auto_checkbox

\* C21 witness: the panel was constructed from a document with a pair (inputs
\* enabled), and the Auto checkbox was then checked: the inputs are disabled.
C21_Witness ==
    /\ settings_panel # NoPanel
    /\ last = "edit"
    /\ loaded.pose_advanced.input_size = Pair(1280, 720)
    /\ settings_panel.auto_checkbox
    /\ ~settings_panel.input_width_enabled
    /\ ~settings_panel.input_height_enabled

\* The number of times the widget w is in the panel stack.
TimesInStack(w) == Cardinality({i \in 1..Len(right_stack) : right_stack[i] = w})

\* The panel stack holds the main panel and each constructed panel exactly
\* once and no other widget, and the displayed panel is one of the stack, the
\* main panel after Back.
PanelStackConsistent ==
    /\ TimesInStack("main") = 1
    /\ TimesInStack("settings") = IF settings_panel # NoPanel THEN 1 ELSE 0
    /\ TimesInStack("installation") = IF installation_panel THEN 1 ELSE 0
    /\ Len(right_stack) <= 3
    /\ current \in Range(right_stack)
    /\ last = "show_main" => current = "main"
    /\ last = "show_installation" => current = "installation"

\* C22. Panel navigation: after any sequence of Installation, Settings and
\* Back presses the window holds at most one settings panel and at most one
\* installation panel, each constructed panel is in the panel stack exactly
\* once, the displayed panel is one of the stack (the main panel after Back),
\* and the configuration document has been loaded at most once.
C22_PanelNavigation ==
    /\ PanelStackConsistent
    /\ nloads <= 1

\* The content area of an expanded box has the height of its content as its
\* maximum height, which is not 0; that of a collapsed box whose animation
\* has finished has maximum height 0.
GroupBoxHeights(b) ==
    /\ ~b.is_collapsed
          => /\ b.content_area_maximum_height = b.content_height
             /\ b.content_area_maximum_height > 0
    /\ (b.is_collapsed /\ ~b.animation_running)
          => b.content_area_maximum_height = 0

\* C23. CollapsibleGroupBox, under any interleaving of clicks and ends of
\* animations: each click flips is_collapsed of the box clicked and changes
\* no other box; the content area's maximum height is never 0 while the box
\* is expanded; and once the box is collapsed and its animation has finished
\* the content area's maximum height is 0.
C23_CollapsibleGroupBox ==
    [][ /\ settings_panel' # NoPanel
              => \A g \in GroupNames : GroupBoxHeights(settings_panel'.groups[g])
        /\ last' = "toggle_content"
              => \E g \in GroupNames :
                    /\ settings_panel'.groups[g].is_collapsed
                          = ~settings_panel.groups[g].is_collapsed
                    /\ \A o \in GroupNames \ {g} :
                          settings_panel'.groups[o] = settings_panel.groups[o] ]_vars

\* C23 witness: a box was expanded and collapsed twice, so that two
\* connections to finished exist, and the animation of the last collapse has
\* finished: the content area's maximum height is 0.
C23_Witness ==
    /\ settings_panel # NoPanel
    /\ last = "animation_finished"
    /\ settings_panel.groups["basic_group"].is_collapsed
    /\ ~settings_panel.groups["basic_group"].animation_running
    /\ settings_panel.groups["basic_group"].finished_connections = 2
    /\ settings_panel.groups["basic_group"].content_height = 350
    /\ settings_panel.groups["basic_group"].content_area_maximum_height = 0
    /\ ~settings_panel.groups["advanced_pose_group"].is_collapsed
    /\ settings_panel.groups["advanced_pose_group"].animation_running
====
